---- MODULE Spec2Model ----
(***************************************************************************)
(* Model of apps/gemini.py: the image-generation client.                   *)
(*                                                                         *)
(* The script encodes the input images, creates the output directory,      *)
(* calls the completions endpoint over raw HTTP (call_api_raw), falls back *)
(* to the SDK client with a retry loop (call_openai_with_retry) when the   *)
(* raw call raises, folds vendor image fields into the content string and  *)
(* hands the content to save_mixed_content.                                *)
(*                                                                         *)
(* Text is modelled at two levels.  Error messages are sequences of        *)
(* characters, so that lower-casing and substring search are computed.     *)
(* Response content is a sequence of whitespace-separated words; a word is *)
(* plain text, a span matching base64_pattern, a span matching url_pattern *)
(* or (after rewriting) a placeholder.                                     *)
(***************************************************************************)
EXTENDS Integers, Sequences, FiniteSets, TLC

(***************************************************************************)
(* Bounds of the model.                                                    *)
(***************************************************************************)
MaxRetries == 3
MaxFragments == 2
MaxLines == 3
MaxWords == 3
MaxImages == 2

(***************************************************************************)
(* Character strings.                                                      *)
(***************************************************************************)
UpperCase == {"A","B","C","D","E","F","G","H","I","J","K","L","M","N","O","P","Q","R","S","T","U","V","W","X","Y","Z"}

LowerOf == [c \in UpperCase |-> CASE c = "A" -> "a" [] c = "B" -> "b" [] c = "C" -> "c" [] c = "D" -> "d" [] c = "E" -> "e" [] c = "F" -> "f" [] c = "G" -> "g" [] c = "H" -> "h" [] c = "I" -> "i" [] c = "J" -> "j" [] c = "K" -> "k" [] c = "L" -> "l" [] c = "M" -> "m" [] c = "N" -> "n" [] c = "O" -> "o" [] c = "P" -> "p" [] c = "Q" -> "q" [] c = "R" -> "r" [] c = "S" -> "s" [] c = "T" -> "t" [] c = "U" -> "u" [] c = "V" -> "v" [] c = "W" -> "w" [] c = "X" -> "x" [] c = "Y" -> "y" [] c = "Z" -> "z"]

\* str.lower()
lower(s) == [i \in 1..Len(s) |-> IF s[i] \in UpperCase THEN LowerOf[s[i]] ELSE s[i]]

\* s[i:].startswith(sub), i counted from 1
MatchesAt(sub, s, i) ==
    /\ i + Len(sub) - 1 <= Len(s)
    /\ \A j \in 1..Len(sub) : s[i + j - 1] = sub[j]

RECURSIVE FindFrom(_, _, _)
\* left-to-right scan for sub in s starting at position i; 0 when absent
FindFrom(sub, s, i) ==
    IF i + Len(sub) - 1 > Len(s) THEN 0
    ELSE IF MatchesAt(sub, s, i) THEN i
    ELSE FindFrom(sub, s, i + 1)

\* Python's "sub in s"
In(sub, s) == FindFrom(sub, s, 1) # 0

quota_keywords == <<
    <<"e","x","c","e","e","d","e","d"," ","y","o","u","r"," ","c","u","r","r","e","n","t"," ","q","u","o","t","a">>,
    <<"q","u","o","t","a"," ","e","x","c","e","e","d","e","d">>,
    <<"b","i","l","l","i","n","g"," ","d","e","t","a","i","l","s">>,
    <<"p","l","a","n"," ","a","n","d"," ","b","i","l","l","i","n","g">> >>

kw_timeout == <<"t","i","m","e","o","u","t">>
kw_timed_out == <<"t","i","m","e","d"," ","o","u","t">>

is_quota_exceeded_error_nolower(error_message) ==
    \E k \in 1..Len(quota_keywords) : In(quota_keywords[k], error_message)

is_quota_exceeded_error(error_message) ==
    LET error_str == lower(error_message)
    IN  \E k \in 1..Len(quota_keywords) : In(quota_keywords[k], error_str)

\* the second test of the except handler (line 309)
is_timeout_error(error_message) ==
    \/ In(kw_timeout, lower(error_message))
    \/ In(kw_timed_out, lower(error_message))

RetryClass_timeout_first(error_message) ==
    IF is_timeout_error(error_message) THEN "timeout"
    ELSE IF is_quota_exceeded_error(error_message) THEN "quota"
    ELSE "other"

\* the if / elif / else chain of the except handler
RetryClass(error_message) ==
    IF is_quota_exceeded_error(error_message) THEN "quota"
    ELSE IF is_timeout_error(error_message) THEN "timeout"
    ELSE "other"

(***************************************************************************)
(* Error messages the SDK client can raise, and the larger family used to  *)
(* exercise the classifier: concatenations of message fragments.           *)
(***************************************************************************)
MsgQuota == <<"E","r","r","o","r",":"," ","q","u","o","t","a"," ","e","x","c","e","e","d","e","d">>
MsgTimeout == <<"R","e","q","u","e","s","t"," ","t","i","m","e","d"," ","o","u","t">>
MsgBoth == <<"T","I","M","E","O","U","T",";"," ","B","i","l","l","i","n","g"," ","D","e","t","a","i","l","s">>
MsgOther == <<"I","n","v","a","l","i","d"," ","A","P","I"," ","k","e","y">>

ErrorMessages == {MsgQuota, MsgTimeout, MsgBoth, MsgOther}

Fragments == {
    <<"q","u","o","t","a"," ">>,
    <<"e","x","c","e","e","d","e","d">>,
    <<"Q","u","o","t","a"," ","E","x","c","e","e","d","e","d">>,
    <<"e","x","c","e","e","d","e","d"," ","y","o","u","r"," ","c","u","r","r","e","n","t"," ">>,
    <<"q","u","o","t","a">>,
    <<"B","i","l","l","i","n","g"," ","D","e","t","a","i","l","s">>,
    <<"p","l","a","n"," ","a","n","d"," ">>,
    <<"b","i","l","l","i","n","g">>,
    <<"t","i","m","e","d">>,
    <<" ","o","u","t">>,
    <<"T","I","M","E","O","U","T">>,
    <<"t","i","m","e">>,
    <<"o","u","t">>,
    <<"t","i","m","e","d","_","o","u","t">>,
    <<"I","n","v","a","l","i","d"," ","A","P","I"," ","k","e","y">> }

RECURSIVE Concatenations(_)
\* every concatenation of 1..n fragments
Concatenations(n) ==
    IF n <= 1 THEN Fragments
    ELSE LET shorter == Concatenations(n - 1)
         IN  shorter \cup {a \o b : a \in shorter, b \in Fragments}

ClassifierInputs == ErrorMessages \cup Concatenations(MaxFragments)

(***************************************************************************)
(* Response content: a sequence of words.                                  *)
(*   k = "text"        plain text                                          *)
(*   k = "b64"         a span base64_pattern matches                       *)
(*   k = "url"         a span url_pattern matches                          *)
(*   k = "saved"       "[保存的图片: <dir>/<v><n>.<e>]"                    *)
(*   k = "downloaded"  "[下载的图片: <dir>/<v><n>.<e>]"                    *)
(* For a span, v names its characters and x = 1 says that the span is the  *)
(* span (v, 0) followed by further characters of the pattern's alphabet,   *)
(* so that the text of (v, 0) is a proper prefix of the text of (v, 1).    *)
(* For a placeholder, x = 1 says that such characters follow it.           *)
(***************************************************************************)
Word(k, v, x, n, e) == [k |-> k, v |-> v, x |-> x, n |-> n, e |-> e]
Text(v) == Word("text", v, 0, 0, "")
B64(v, x) == Word("b64", v, x, 0, "")
Url(v, x) == Word("url", v, x, 0, "")

SpanWords == {B64("B", 0), B64("B", 1), Url("U", 0), Url("U", 1)}
Words == {Text("t")} \cup SpanWords

RECURSIVE SeqsUpTo(_, _)
\* all sequences over S of length 0..n
SeqsUpTo(S, n) ==
    IF n = 0 THEN {<<>>}
    ELSE LET shorter == SeqsUpTo(S, n - 1)
         IN  shorter \cup {Append(q, a) : q \in {r \in shorter : Len(r) = n - 1}, a \in S}

Contents == SeqsUpTo(Words, MaxWords)

(***************************************************************************)
(* Vendor image fields of a response message.  A field value is absent, a  *)
(* list of entries, a single string or some other truthy value.  An entry  *)
(* carries the word its payload denotes.                                   *)
(*   e = "str"        a bare base64 string                                 *)
(*   e = "str_data"   a string that starts with "data:"                    *)
(*   e = "dict_data" / "dict_url" / "dict_base64"  a dict with that key    *)
(*   e = "dict_other" a dict with none of the three keys                   *)
(*   e = "obj_data"   an object with a .data attribute (SDK objects only)  *)
(***************************************************************************)
possible_image_fields == <<"images", "image", "attachments", "media", "files", "data">>
FieldNames == {possible_image_fields[i] : i \in 1..Len(possible_image_fields)}

Entry(e, w) == [e |-> e, w |-> w]
FieldValue(t, items) == [t |-> t, items |-> items]
Absent == FieldValue("absent", <<>>)

RawFieldValues == {
    FieldValue("list", <<>>),
    FieldValue("str", <<Entry("str", B64("B", 0))>>),
    FieldValue("str", <<Entry("str_data", B64("B", 1))>>),
    FieldValue("list", <<Entry("str", B64("B", 0)), Entry("dict_url", Url("U", 0))>>),
    FieldValue("list", <<Entry("dict_other", Text("t")), Entry("dict_base64", B64("B", 1)),
                         Entry("str_data", B64("B", 0))>>),
    FieldValue("list", <<Entry("dict_data", B64("B", 0))>>),
    FieldValue("other", <<>>) }

ClientFieldValues == {
    FieldValue("list", <<>>),
    FieldValue("list", <<Entry("str", B64("B", 0)), Entry("dict_data", B64("B", 1))>>),
    FieldValue("list", <<Entry("obj_data", B64("B", 1)), Entry("dict_other", Text("t"))>>) }

NoFields == [f \in FieldNames |-> Absent]

\* messages with no vendor field, with one, and with two of them
FieldMaps(values) ==
    {NoFields}
    \cup {[NoFields EXCEPT ![f] = v] : f \in FieldNames, v \in values}
    \cup {[NoFields EXCEPT ![f] = v, ![g] = FieldValue("str", <<Entry("str", B64("B", 0))>>)] :
              f \in FieldNames \ {"data"}, g \in {"data"}, v \in values}

\* has = "str": content is a string; "none": content is null; "absent": no content key
Message(has, c, fields) == [has |-> has, content |-> c, fields |-> fields]

(***************************************************************************)
(* State.                                                                  *)
(***************************************************************************)
VARIABLES
    MAX_RETRIES,        \* configuration (lines 46, 47, 51)
    RETRY_DELAY,
    USE_STREAM,
    readable,           \* which of the input image files can be read and encoded
    pc,                 \* position of the module-level script
    image_contents,     \* indices of the input images that were encoded
    output_directory,   \* TRUE once create_output_directory has run
    primary_calls,      \* number of call_api_raw invocations
    primary_event,      \* what the endpoint did on the raw call
    attempt,            \* loop variable of call_openai_with_retry (0-based)
    create_calls,       \* number of client.chat.completions.create calls
    attempt_errors,     \* messages raised by the create calls, in order
    sleeps,             \* time.sleep calls: after which attempt, how long
    raised,             \* the exception that left call_openai_with_retry
    completion,
    use_raw_response,   \* "unset", "raw" or "client"
    response_content,
    save_calls,         \* number of save_mixed_content invocations
    content,            \* argument of save_mixed_content
    text_content,
    image_index,
    phase,              \* position inside save_mixed_content
    b_iter,             \* positions base64_matches has still to yield
    u_iter,             \* positions url_matches has still to yield
    results,            \* per processed match: position, index used, outcome
    files,              \* image files opened for writing, in order
    content_txt,        \* what content.txt holds
    original_txt,       \* what original_content.txt holds
    save_error,         \* TRUE once the except clause of line 180 has run
    reported,           \* TRUE once line 496 has printed
    msg,                \* classifier exercise: the message
    cls                 \* classifier exercise: class and handler decision

configVars == <<MAX_RETRIES, RETRY_DELAY, USE_STREAM, readable>>
driverVars == <<pc, image_contents, output_directory, completion, use_raw_response,
                response_content, reported>>
primaryVars == <<primary_calls, primary_event>>
retryVars == <<attempt, create_calls, attempt_errors, sleeps, raised>>
saveVars == <<save_calls, content, text_content, image_index, phase, b_iter, u_iter,
              results, files, content_txt, original_txt, save_error>>
classVars == <<msg, cls>>
vars == <<configVars, driverVars, primaryVars, retryVars, saveVars, classVars>>

Delays == {0, 5}

NoMessage == Message("absent", <<>>, NoFields)
Response(choices, message) == [choices |-> choices, message |-> message]
NoResponse == Response(FALSE, NoMessage)

NoError == [msg |-> <<>>, attempt |-> 0]
Raised(m, k) == [msg |-> m, attempt |-> k]
\* Exception(f"经过 {max_retries} 次重试后仍然失败") of line 322
GenericExhaustion == Raised(<<"e","x","h","a","u","s","t","e","d">>, 0)

NotWritten == <<Word("unwritten", "", 0, 0, "")>>

(***************************************************************************)
(* call_api_raw.                                                           *)
(***************************************************************************)
\* One line of the event stream.
\*   "blank"        empty line                    "noprefix"  no 'data: ' prefix
\*   "done"         data: [DONE]                  "badjson"   payload is not JSON
\*   "nochoices"    chunk without choices         "nocontent" delta without content
\*   "nullcontent"  delta.content is null         "content"   delta.content = frag
Line(t, frag) == [t |-> t, frag |-> frag]

\* What the endpoint does on the raw call.
\*   kind "conn_error"    requests.post raised
\*        "status_error"  raise_for_status raised
\*        "stream"        the lines of an event stream (use_stream)
\*        "body"          a JSON body (not use_stream)
\*   tail "ok"; "broken": iter_lines raised after the lines were delivered, or
\*        writing a debug file raised; "badjson": response.json() raised
PEvent(kind, lines, tail, body) == [kind |-> kind, lines |-> lines, tail |-> tail, body |-> body]
NoEvent == PEvent("none", <<>>, "ok", NoResponse)

Step_raise_on_badjson(acc, line) ==
    IF ~acc.ok THEN acc
    ELSE IF line.t \in {"blank", "noprefix", "done"} THEN acc
    ELSE IF line.t = "badjson" THEN [acc EXCEPT !.ok = FALSE]
    ELSE IF line.t \in {"nochoices", "nocontent"} THEN [acc EXCEPT !.chunks = @ + 1]
    ELSE IF line.t = "nullcontent" THEN [acc EXCEPT !.chunks = @ + 1, !.ok = FALSE]
    ELSE [acc EXCEPT !.chunks = @ + 1, !.full_content = @ \o line.frag]

\* body of the for loop over response.iter_lines() (lines 223-236);
\* ok = FALSE once an exception has left the loop
Step(acc, line) ==
    IF ~acc.ok THEN acc
    ELSE IF line.t \in {"blank", "noprefix", "done"} THEN acc
    ELSE IF line.t = "badjson" THEN acc
    ELSE IF line.t \in {"nochoices", "nocontent"} THEN [acc EXCEPT !.chunks = @ + 1]
    ELSE IF line.t = "nullcontent" THEN [acc EXCEPT !.chunks = @ + 1, !.ok = FALSE]
    ELSE [acc EXCEPT !.chunks = @ + 1, !.full_content = @ \o line.frag]

RECURSIVE ProcessLines_stop_at_done(_, _)
ProcessLines_stop_at_done(acc, lines) ==
    IF lines = <<>> \/ Head(lines).t = "done" THEN acc
    ELSE ProcessLines_stop_at_done(Step(acc, Head(lines)), Tail(lines))

RECURSIVE ProcessLines(_, _)
ProcessLines(acc, lines) ==
    IF lines = <<>> THEN acc
    ELSE ProcessLines(Step(acc, Head(lines)), Tail(lines))

\* result of call_api_raw on event ev: raised, or the returned json_response
call_api_raw(ev, use_stream) ==
    IF ev.kind \in {"conn_error", "status_error"} THEN
        [raised |-> TRUE, response |-> NoResponse]
    ELSE IF use_stream THEN
        LET acc == ProcessLines([ok |-> TRUE, full_content |-> <<>>, chunks |-> 0], ev.lines)
        IN  IF ~acc.ok \/ ev.tail # "ok"
            THEN [raised |-> TRUE, response |-> NoResponse]
            ELSE [raised |-> FALSE,
                  response |-> Response(TRUE, Message("str", acc.full_content, NoFields))]
    ELSE
        IF ev.tail # "ok"
        THEN [raised |-> TRUE, response |-> NoResponse]
        ELSE [raised |-> FALSE, response |-> ev.body]

(***************************************************************************)
(* call_openai_with_retry.                                                 *)
(***************************************************************************)
Decision(next, slept) == [next |-> next, slept |-> slept]

RetryDecision_no_last_raise(error_message, att, max_retries, retry_delay) ==
    LET c == RetryClass(error_message)
    IN  IF c = "quota" THEN
            IF att < max_retries THEN Decision("continue", retry_delay > 0)
            ELSE Decision("raise", FALSE)
        ELSE IF c = "timeout" THEN
            IF att < max_retries THEN Decision("continue", FALSE)
            ELSE Decision("raise", FALSE)
        ELSE Decision("raise", FALSE)

RetryDecision_retry_all(error_message, att, max_retries, retry_delay) ==
    LET c == RetryClass(error_message)
    IN  IF att < max_retries - 1
        THEN Decision("continue", c = "quota" /\ retry_delay > 0)
        ELSE Decision("raise", FALSE)

RetryDecision_sleep_always(error_message, att, max_retries, retry_delay) ==
    LET c == RetryClass(error_message)
    IN  IF c \in {"quota", "timeout"} THEN
            IF att < max_retries - 1 THEN Decision("continue", retry_delay > 0)
            ELSE Decision("raise", FALSE)
        ELSE Decision("raise", FALSE)

\* the except handler of the loop body (lines 293-319): what follows the
\* failure of attempt att (0-based), and whether time.sleep is called
RetryDecision(error_message, att, max_retries, retry_delay) ==
    LET c == RetryClass(error_message)
    IN  IF c = "quota" THEN
            IF att < max_retries - 1 THEN Decision("continue", retry_delay > 0)
            ELSE Decision("raise", FALSE)
        ELSE IF c = "timeout" THEN
            IF att < max_retries - 1 THEN Decision("continue", FALSE)
            ELSE Decision("raise", FALSE)
        ELSE Decision("raise", FALSE)

FallbackAttempt_no_return(completions, errors) ==
    /\ pc = "fallback"
    /\ attempt < MAX_RETRIES
    /\ create_calls' = create_calls + 1
    /\ \/ \E c \in completions :
            /\ completion' = c
            /\ use_raw_response' = "client"
            /\ attempt' = attempt + 1
            /\ UNCHANGED <<pc, attempt_errors, sleeps, raised>>
       \/ \E e \in errors :
            LET d == RetryDecision(e, attempt, MAX_RETRIES, RETRY_DELAY)
            IN  /\ attempt_errors' = Append(attempt_errors, e)
                /\ sleeps' = IF d.slept
                             THEN Append(sleeps, [after |-> attempt + 1, delay |-> RETRY_DELAY])
                             ELSE sleeps
                /\ IF d.next = "continue"
                   THEN /\ attempt' = attempt + 1
                        /\ UNCHANGED <<raised, pc>>
                   ELSE /\ raised' = Raised(e, attempt + 1)
                        /\ pc' = "crashed"
                        /\ UNCHANGED attempt
                /\ UNCHANGED <<completion, use_raw_response>>
    /\ UNCHANGED <<configVars, image_contents, output_directory, response_content, reported,
                   primaryVars, saveVars, classVars>>

\* One iteration of "for attempt in range(max_retries)": the create call and,
\* when it raises, the whole except handler.
FallbackAttempt(completions, errors) ==
    /\ pc = "fallback"
    /\ attempt < MAX_RETRIES
    /\ create_calls' = create_calls + 1
    /\ \/ \E c \in completions :
            /\ completion' = c
            /\ use_raw_response' = "client"
            /\ pc' = "fields"
            /\ UNCHANGED <<attempt, attempt_errors, sleeps, raised>>
       \/ \E e \in errors :
            LET d == RetryDecision(e, attempt, MAX_RETRIES, RETRY_DELAY)
            IN  /\ attempt_errors' = Append(attempt_errors, e)
                /\ sleeps' = IF d.slept
                             THEN Append(sleeps, [after |-> attempt + 1, delay |-> RETRY_DELAY])
                             ELSE sleeps
                /\ IF d.next = "continue"
                   THEN /\ attempt' = attempt + 1
                        /\ UNCHANGED <<raised, pc>>
                   ELSE /\ raised' = Raised(e, attempt + 1)
                        /\ pc' = "crashed"
                        /\ UNCHANGED attempt
                /\ UNCHANGED <<completion, use_raw_response>>
    /\ UNCHANGED <<configVars, image_contents, output_directory, response_content, reported,
                   primaryVars, saveVars, classVars>>

\* The loop is over without a return or a raise: line 322.
FallbackExhausted ==
    /\ pc = "fallback"
    /\ attempt >= MAX_RETRIES
    /\ raised' = GenericExhaustion
    /\ pc' = "crashed"
    /\ UNCHANGED <<configVars, image_contents, output_directory, completion, use_raw_response,
                   response_content, reported, primaryVars, attempt, create_calls,
                   attempt_errors, sleeps, saveVars, classVars>>

(***************************************************************************)
(* Module-level script, lines 330-401.                                     *)
(***************************************************************************)
RECURSIVE Encoded_abort_on_first_failure(_, _)
Encoded_abort_on_first_failure(can_read, i) ==
    IF i > MaxImages \/ ~can_read[i] THEN <<>>
    ELSE <<i>> \o Encoded_abort_on_first_failure(can_read, i + 1)

RECURSIVE Encoded(_, _)
\* the loop of lines 338-350 over paths i..MaxImages: the images whose
\* prepare_image_data call did not raise, in input order
Encoded(can_read, i) ==
    IF i > MaxImages THEN <<>>
    ELSE (IF can_read[i] THEN <<i>> ELSE <<>>) \o Encoded(can_read, i + 1)

PrepareImages ==
    /\ pc = "prepare"
    /\ image_contents' = Encoded(readable, 1)
    /\ pc' = IF image_contents' = <<>> THEN "exit1" ELSE "mkdir"
    /\ UNCHANGED <<configVars, output_directory, completion, use_raw_response,
                   response_content, reported, primaryVars, retryVars, saveVars, classVars>>

CreateOutputDirectory ==
    /\ pc = "mkdir"
    /\ output_directory' = TRUE
    /\ pc' = "primary"
    /\ UNCHANGED <<configVars, image_contents, completion, use_raw_response,
                   response_content, reported, primaryVars, retryVars, saveVars, classVars>>

PrimaryCall_status_fatal(events) ==
    /\ pc = "primary"
    /\ \E ev \in events :
          /\ (ev.kind = "stream") => USE_STREAM
          /\ (ev.kind = "body") => ~USE_STREAM
          /\ primary_event' = ev
          /\ LET r == call_api_raw(ev, USE_STREAM)
             IN  IF r.raised
                 THEN /\ pc' = IF ev.kind = "status_error" THEN "crashed" ELSE "fallback"
                      /\ UNCHANGED <<completion, use_raw_response>>
                 ELSE /\ completion' = r.response
                      /\ use_raw_response' = "raw"
                      /\ pc' = "fields"
    /\ primary_calls' = primary_calls + 1
    /\ UNCHANGED <<configVars, image_contents, output_directory, response_content, reported,
                   retryVars, saveVars, classVars>>

\* the try / except around call_api_raw (lines 375-401), up to the entry of
\* call_openai_with_retry
PrimaryCall(events) ==
    /\ pc = "primary"
    /\ \E ev \in events :
          /\ (ev.kind = "stream") => USE_STREAM
          /\ (ev.kind = "body") => ~USE_STREAM
          /\ primary_event' = ev
          /\ LET r == call_api_raw(ev, USE_STREAM)
             IN  IF r.raised
                 THEN /\ pc' = "fallback"
                      /\ UNCHANGED <<completion, use_raw_response>>
                 ELSE /\ completion' = r.response
                      /\ use_raw_response' = "raw"
                      /\ pc' = "fields"
    /\ primary_calls' = primary_calls + 1
    /\ UNCHANGED <<configVars, image_contents, output_directory, response_content, reported,
                   retryVars, saveVars, classVars>>

(***************************************************************************)
(* Module-level script, lines 435-492: the content string.                 *)
(***************************************************************************)
RECURSIVE Flatten(_)
Flatten(seqs) == IF seqs = <<>> THEN <<>> ELSE Head(seqs) \o Flatten(Tail(seqs))

\* lines 452-466: what one element of a list adds to response_content
EntryAppendRaw(en) ==
    IF en.e \in {"str", "str_data", "dict_data", "dict_url", "dict_base64"}
    THEN <<en.w>> ELSE <<>>

\* lines 447-472: what one field adds (nothing when absent or falsy)
ValueAppendsRaw(v) ==
    IF v.t = "list" THEN Flatten([i \in 1..Len(v.items) |-> EntryAppendRaw(v.items[i])])
    ELSE IF v.t = "str" THEN <<v.items[1].w>>
    ELSE <<>>

RawAppends_images_only(fields) == ValueAppendsRaw(fields["images"])

\* the loop over possible_image_fields (line 446)
RawAppends(fields) ==
    Flatten([i \in 1..Len(possible_image_fields) |->
                 ValueAppendsRaw(fields[possible_image_fields[i]])])

\* lines 485-489: strings and objects with a data attribute
EntryAppendClient(en) ==
    IF en.e \in {"str", "obj_data"} THEN <<en.w>> ELSE <<>>

\* lines 478-489: only message.images is looked at
ClientAppends(fields) ==
    LET v == fields["images"]
    IN  IF v.t = "list" THEN Flatten([i \in 1..Len(v.items) |-> EntryAppendClient(v.items[i])])
        ELSE <<>>

ExtractContent_carry ==
    /\ pc = "fields"
    /\ LET m == completion.message
           carried == Flatten([i \in 1..Len(primary_event.lines) |->
                                  IF use_raw_response = "client"
                                     /\ primary_event.lines[i].t = "content"
                                  THEN primary_event.lines[i].frag ELSE <<>>])
           base == IF m.has = "str" THEN m.content ELSE <<>>
           more == IF use_raw_response = "raw" THEN RawAppends(m.fields)
                   ELSE ClientAppends(m.fields)
       IN  IF ~completion.choices \/ m.has = "none"
           THEN /\ pc' = "crashed"
                /\ UNCHANGED response_content
           ELSE /\ response_content' = carried \o base \o more
                /\ pc' = "save"
    /\ UNCHANGED <<configVars, image_contents, output_directory, completion, use_raw_response,
                   reported, primaryVars, retryVars, saveVars, classVars>>

\* Lines 436-492.  A response without choices raises KeyError; a null content
\* raises TypeError at the first += or at len() in line 492.
ExtractContent ==
    /\ pc = "fields"
    /\ LET m == completion.message
           base == IF m.has = "str" THEN m.content ELSE <<>>
           more == IF use_raw_response = "raw" THEN RawAppends(m.fields)
                   ELSE ClientAppends(m.fields)
       IN  IF ~completion.choices \/ m.has = "none"
           THEN /\ pc' = "crashed"
                /\ UNCHANGED response_content
           ELSE /\ response_content' = base \o more
                /\ pc' = "save"
    /\ UNCHANGED <<configVars, image_contents, output_directory, completion, use_raw_response,
                   reported, primaryVars, retryVars, saveVars, classVars>>

(***************************************************************************)
(* save_mixed_content.                                                     *)
(***************************************************************************)
File(stem, n, ext) == [stem |-> stem, n |-> n, ext |-> ext]
NoFile == File("", 0, "")

RECURSIVE PositionsFrom_all(_, _, _)
PositionsFrom_all(c, k, i) ==
    IF i > Len(c) THEN <<>>
    ELSE (IF k = "b64" THEN <<i>> ELSE <<>>) \o PositionsFrom_all(c, k, i + 1)

RECURSIVE PositionsFrom(_, _, _)
\* re.finditer: the positions of the words of kind k, left to right
PositionsFrom(c, k, i) ==
    IF i > Len(c) THEN <<>>
    ELSE (IF c[i].k = k THEN <<i>> ELSE <<>>) \o PositionsFrom(c, k, i + 1)

\* str.replace(target, placeholder) on one word: an equal span becomes the
\* placeholder; a span that starts with the target's characters becomes the
\* placeholder followed by its remaining characters
ReplaceWord(w, target, verb, f) ==
    IF w.k = target.k /\ w.v = target.v /\ w.x >= target.x
    THEN Word(verb, f.stem, w.x - target.x, f.n, f.ext)
    ELSE w

\* text_content.replace(full_match, f"[<verb>: {saved_path}]"): every occurrence
Replace(text, target, verb, f) ==
    [i \in 1..Len(text) |-> ReplaceWord(text[i], target, verb, f)]

ContentTypes == {"IMAGE/JPEG", "text/html"}

\* lines 104-112
ExtOf(content_type) ==
    CASE content_type \in {"image/png", "IMAGE/PNG"} -> "png"
      [] content_type \in {"image/jpeg", "image/jpg", "IMAGE/JPEG"} -> "jpg"
      [] content_type \in {"image/gif"} -> "gif"
      [] OTHER -> "png"

Result(pos, k, n, out, f) == [pos |-> pos, k |-> k, n |-> n, out |-> out, file |-> f]

\* the call of line 495 and lines 130-141
SaveMixedContentBegin ==
    /\ pc = "save"
    /\ phase = "idle"
    /\ save_calls' = save_calls + 1
    /\ content' = response_content
    /\ b_iter' = PositionsFrom(response_content, "b64", 1)
    /\ u_iter' = PositionsFrom(response_content, "url", 1)
    /\ text_content' = response_content
    /\ image_index' = 1
    /\ phase' = "loop"
    /\ UNCHANGED <<configVars, driverVars, primaryVars, retryVars, results, files,
                   content_txt, original_txt, save_error, classVars>>

NextIndex_no_increment(n) == n
NextIndex_skip(n) == n + 2

\* image_index += 1 (lines 153, 164)
NextIndex(n) == n + 1

SaveBase64Step_fail_aborts ==
    /\ phase = "loop"
    /\ b_iter # <<>>
    /\ LET pos == Head(b_iter)
           full_match == content[pos]
           f == File("image_", image_index, "png")
       IN  \E out \in {"ok", "fail", "fail_opened"} :
              /\ files' = IF out = "fail" THEN files ELSE Append(files, f)
              /\ results' = Append(results, Result(pos, "b64", image_index, out,
                                                   IF out = "fail" THEN NoFile ELSE f))
              /\ IF out = "ok"
                 THEN /\ text_content' = Replace(text_content, full_match, "saved", f)
                      /\ image_index' = NextIndex(image_index)
                      /\ UNCHANGED <<phase, save_error>>
                 ELSE /\ phase' = "returned"
                      /\ save_error' = TRUE
                      /\ UNCHANGED <<text_content, image_index>>
    /\ b_iter' = Tail(b_iter)
    /\ UNCHANGED <<configVars, driverVars, primaryVars, retryVars, save_calls, content,
                   u_iter, content_txt, original_txt, classVars>>

\* One iteration of the loop of lines 144-153, save_base64_image included.
\*   "ok"          the file is written and its path returned
\*   "fail"        decoding or open() raised: no file, None returned
\*   "fail_opened" write() raised after open(): the file exists, None returned
SaveBase64Step ==
    /\ phase = "loop"
    /\ b_iter # <<>>
    /\ LET pos == Head(b_iter)
           full_match == content[pos]
           f == File("image_", image_index, "png")
       IN  \E out \in {"ok", "fail", "fail_opened"} :
              /\ files' = IF out = "fail" THEN files ELSE Append(files, f)
              /\ results' = Append(results, Result(pos, "b64", image_index, out,
                                                   IF out = "fail" THEN NoFile ELSE f))
              /\ IF out = "ok"
                 THEN /\ text_content' = Replace(text_content, full_match, "saved", f)
                      /\ image_index' = NextIndex(image_index)
                 ELSE UNCHANGED <<text_content, image_index>>
    /\ b_iter' = Tail(b_iter)
    /\ UNCHANGED <<configVars, driverVars, primaryVars, retryVars, save_calls, content,
                   phase, u_iter, content_txt, original_txt, save_error, classVars>>

\* One iteration of the loop of lines 156-164, download_image_from_url included.
\*   "fail"        requests.get or raise_for_status raised
\*   "fail_opened" iter_content or write() raised after open()
DownloadUrlStep ==
    /\ phase = "loop"
    /\ b_iter = <<>>
    /\ u_iter # <<>>
    /\ LET pos == Head(u_iter)
           url == content[pos]
       IN  \E out \in {"ok", "fail", "fail_opened"}, ct \in ContentTypes :
              LET f == File("image_url_", image_index, ExtOf(ct))
              IN  /\ files' = IF out = "fail" THEN files ELSE Append(files, f)
                  /\ results' = Append(results, Result(pos, "url", image_index, out,
                                                       IF out = "fail" THEN NoFile ELSE f))
                  /\ IF out = "ok"
                     THEN /\ text_content' = Replace(text_content, url, "downloaded", f)
                          /\ image_index' = NextIndex(image_index)
                     ELSE UNCHANGED <<text_content, image_index>>
    /\ u_iter' = Tail(u_iter)
    /\ UNCHANGED <<configVars, driverVars, primaryVars, retryVars, save_calls, content,
                   phase, b_iter, content_txt, original_txt, save_error, classVars>>

\* Lines 166-181.  An exception while writing either file is caught by the
\* except clause of line 180, which prints and returns.
WriteTexts ==
    /\ phase = "loop"
    /\ b_iter = <<>>
    /\ u_iter = <<>>
    /\ \E out \in {"ok", "content_fail", "original_fail"} :
          /\ content_txt' = IF out = "content_fail" THEN content_txt ELSE text_content
          /\ original_txt' = IF out = "ok" THEN content ELSE original_txt
          /\ save_error' = (out # "ok")
    /\ phase' = "returned"
    /\ UNCHANGED <<configVars, driverVars, primaryVars, retryVars, save_calls, content,
                   text_content, image_index, b_iter, u_iter, results, files, classVars>>

\* line 496
Report ==
    /\ pc = "save"
    /\ phase = "returned"
    /\ reported' = TRUE
    /\ pc' = "done"
    /\ UNCHANGED <<configVars, image_contents, output_directory, completion, use_raw_response,
                   response_content, primaryVars, retryVars, saveVars, classVars>>

(***************************************************************************)
(* The classifier on its own.                                              *)
(***************************************************************************)
Unclassified == [class |-> "unset", next |-> "unset", slept |-> FALSE]

\* the except handler applied to msg on a first attempt
Classify ==
    /\ cls = Unclassified
    /\ msg # <<>>
    /\ LET d == RetryDecision(msg, 0, MAX_RETRIES, RETRY_DELAY)
       IN  cls' = [class |-> RetryClass(msg), next |-> d.next, slept |-> d.slept]
    /\ UNCHANGED <<configVars, driverVars, primaryVars, retryVars, saveVars, msg>>

(***************************************************************************)
(* Environments.                                                           *)
(***************************************************************************)
Frags == {<<Text("t")>>, <<B64("B", 0)>>}
Lines == {Line(t, <<>>) : t \in {"blank", "noprefix", "done", "badjson", "nochoices",
                                  "nocontent", "nullcontent"}}
         \cup {Line("content", f) : f \in Frags}

\* every outcome of the raw streaming call over streams of up to MaxLines lines
StreamEvents ==
    {PEvent(k, <<>>, "ok", NoResponse) : k \in {"conn_error", "status_error"}}
    \cup {PEvent("stream", ls, tl, NoResponse) :
              ls \in SeqsUpTo(Lines, MaxLines), tl \in {"ok", "broken"}}

\* the outcomes of the raw call used when the whole script is run
DriverEvents ==
    {PEvent(k, <<>>, "ok", NoResponse) : k \in {"conn_error", "status_error"}}
    \cup {PEvent("stream", ls, "ok", NoResponse) : ls \in {
              <<Line("content", <<Text("t")>>), Line("done", <<>>)>>,
              <<Line("content", <<B64("B", 0)>>), Line("badjson", <<>>),
                Line("content", <<Text("t")>>)>>,
              <<Line("content", <<Text("t")>>), Line("nullcontent", <<>>)>>,
              <<Line("blank", <<>>), Line("nochoices", <<>>),
                Line("content", <<Url("U", 0)>>)>> }}
    \cup {PEvent("stream", <<Line("content", <<Text("t")>>)>>, "broken", NoResponse)}
    \cup {PEvent("body", <<>>, "ok", b) : b \in {
              Response(TRUE, Message("str", <<Text("t")>>, NoFields)),
              Response(TRUE, Message("absent", <<>>,
                  [NoFields EXCEPT !["media"] =
                      FieldValue("list", <<Entry("str", B64("B", 0)),
                                           Entry("dict_url", Url("U", 0))>>)])),
              Response(TRUE, Message("none", <<>>, NoFields)),
              Response(FALSE, NoMessage) }}
    \cup {PEvent("body", <<>>, "badjson", NoResponse)}

DriverCompletions == {
    Response(TRUE, Message("str", <<Text("t")>>, NoFields)),
    Response(TRUE, Message("str", <<B64("B", 0)>>,
        [NoFields EXCEPT !["images"] = FieldValue("list", <<Entry("str", B64("B", 0))>>)])),
    Response(TRUE, Message("str", <<Text("t")>>,
        [NoFields EXCEPT !["attachments"] = FieldValue("list", <<Entry("str", B64("B", 0))>>)])),
    Response(TRUE, Message("none", <<>>, NoFields)) }

RawResponses ==
    {Response(TRUE, Message("str", c, fs)) :
         c \in {<<>>, <<Text("t")>>, <<Url("U", 0), Text("t")>>}, fs \in FieldMaps(RawFieldValues)}
    \cup {Response(TRUE, Message(h, <<>>, fs)) :
         h \in {"none", "absent"}, fs \in FieldMaps(RawFieldValues)}
    \cup {Response(FALSE, NoMessage)}

ClientResponses ==
    {Response(TRUE, Message("str", c, fs)) :
         c \in {<<>>, <<Text("t")>>, <<B64("B", 0)>>}, fs \in FieldMaps(ClientFieldValues)}
    \cup {Response(TRUE, Message("none", <<>>, fs)) : fs \in FieldMaps(ClientFieldValues)}

(***************************************************************************)
(* Initial states and specifications.                                      *)
(***************************************************************************)
Start(pc0) ==
    /\ pc = pc0
    /\ attempt = 0
    /\ create_calls = 0
    /\ attempt_errors = <<>>
    /\ sleeps = <<>>
    /\ raised = NoError
    /\ save_calls = 0
    /\ content = <<>>
    /\ text_content = <<>>
    /\ image_index = 0
    /\ phase = "idle"
    /\ b_iter = <<>>
    /\ u_iter = <<>>
    /\ results = <<>>
    /\ files = <<>>
    /\ content_txt = NotWritten
    /\ original_txt = NotWritten
    /\ save_error = FALSE
    /\ reported = FALSE
    /\ cls = Unclassified

\* nothing has run yet
Fresh ==
    /\ image_contents = <<>>
    /\ output_directory = FALSE
    /\ primary_calls = 0
    /\ primary_event = NoEvent
    /\ completion = NoResponse
    /\ use_raw_response = "unset"
    /\ response_content = <<>>
    /\ msg = <<>>

\* the images are encoded and the output directory exists
Prepared ==
    /\ readable = [i \in 1..MaxImages |-> i = 1]
    /\ image_contents = <<1>>
    /\ output_directory = TRUE

\* The whole script, from the first module-level statement.
Init ==
    /\ MAX_RETRIES \in {0, 1, 2}
    /\ RETRY_DELAY \in Delays
    /\ USE_STREAM \in BOOLEAN
    /\ readable \in [1..MaxImages -> BOOLEAN]
    /\ Start("prepare")
    /\ Fresh

Next ==
    \/ PrepareImages
    \/ CreateOutputDirectory
    \/ PrimaryCall(DriverEvents)
    \/ FallbackAttempt(DriverCompletions, ErrorMessages)
    \/ FallbackExhausted
    \/ ExtractContent
    \/ SaveMixedContentBegin
    \/ SaveBase64Step
    \/ DownloadUrlStep
    \/ WriteTexts
    \/ Report

Spec == Init /\ [][Next]_vars

\* call_openai_with_retry from its entry, after a raw call that raised.
InitRetry ==
    /\ MAX_RETRIES \in -1..MaxRetries
    /\ RETRY_DELAY \in Delays
    /\ USE_STREAM = TRUE
    /\ Start("fallback")
    /\ Prepared
    /\ primary_calls = 1
    /\ primary_event = PEvent("conn_error", <<>>, "ok", NoResponse)
    /\ completion = NoResponse
    /\ use_raw_response = "unset"
    /\ response_content = <<>>
    /\ msg = <<>>

NextRetry ==
    \/ FallbackAttempt({Response(TRUE, Message("str", <<Text("t")>>, NoFields))}, ErrorMessages)
    \/ FallbackExhausted

SpecRetry == InitRetry /\ [][NextRetry]_vars

\* The except handler on a family of messages.
InitClassify ==
    /\ MAX_RETRIES \in {1, 2}
    /\ RETRY_DELAY \in Delays
    /\ USE_STREAM = TRUE
    /\ Start("fallback")
    /\ Prepared
    /\ primary_calls = 1
    /\ primary_event = PEvent("conn_error", <<>>, "ok", NoResponse)
    /\ completion = NoResponse
    /\ use_raw_response = "unset"
    /\ response_content = <<>>
    /\ msg \in ClassifierInputs

NextClassify == Classify

SpecClassify == InitClassify /\ [][NextClassify]_vars

\* call_api_raw in streaming mode on every stream of up to MaxLines lines.
InitStream ==
    /\ MAX_RETRIES = 1
    /\ RETRY_DELAY = 0
    /\ USE_STREAM = TRUE
    /\ Start("primary")
    /\ Prepared
    /\ primary_calls = 0
    /\ primary_event = NoEvent
    /\ completion = NoResponse
    /\ use_raw_response = "unset"
    /\ response_content = <<>>
    /\ msg = <<>>

NextStream == PrimaryCall(StreamEvents)

SpecStream == InitStream /\ [][NextStream]_vars

\* Lines 435-495 on every response message of either transport.
InitFields ==
    /\ MAX_RETRIES = 1
    /\ RETRY_DELAY = 0
    /\ USE_STREAM = FALSE
    /\ Start("fields")
    /\ Prepared
    /\ primary_calls = 1
    /\ \/ /\ use_raw_response = "raw"
          /\ completion \in RawResponses
          /\ primary_event = PEvent("body", <<>>, "ok", completion)
       \/ /\ use_raw_response = "client"
          /\ completion \in ClientResponses
          /\ primary_event = PEvent("conn_error", <<>>, "ok", NoResponse)
    /\ response_content = <<>>
    /\ msg = <<>>

NextFields ==
    \/ ExtractContent
    \/ SaveMixedContentBegin

SpecFields == InitFields /\ [][NextFields]_vars

\* save_mixed_content on every content of up to MaxWords words.
InitExtract ==
    /\ MAX_RETRIES = 1
    /\ RETRY_DELAY = 0
    /\ USE_STREAM = TRUE
    /\ Start("save")
    /\ Prepared
    /\ primary_calls = 1
    /\ response_content \in Contents
    /\ primary_event = PEvent("stream", <<Line("content", response_content)>>, "ok", NoResponse)
    /\ completion = Response(TRUE, Message("str", response_content, NoFields))
    /\ use_raw_response = "raw"
    /\ msg = <<>>

NextExtract ==
    \/ SaveMixedContentBegin
    \/ SaveBase64Step
    \/ DownloadUrlStep
    \/ WriteTexts
    \/ Report

SpecExtract == InitExtract /\ [][NextExtract]_vars

(***************************************************************************)
(* Properties.                                                             *)
(***************************************************************************)
Retryable(e) == RetryClass(e) \in {"quota", "timeout"}

NoSuccessYet == Len(attempt_errors) = create_calls

\* C1: with max_retries = N >= 1 and every attempt raising a retryable error
\* (quota or timeout, in any mix), call_openai_with_retry makes exactly N create
\* calls and then re-raises the error of attempt N; it never makes call N + 1.
C1_ExactlyNAttempts ==
    (/\ MAX_RETRIES >= 1
     /\ NoSuccessYet
     /\ \A k \in 1..Len(attempt_errors) : Retryable(attempt_errors[k]))
    => /\ create_calls <= MAX_RETRIES
       /\ (create_calls = MAX_RETRIES) <=> (pc = "crashed")
       /\ pc = "crashed" => raised = Raised(attempt_errors[MAX_RETRIES], MAX_RETRIES)
       /\ pc # "crashed" => (pc = "fallback" /\ raised = NoError)

C1_Witness ==
    /\ MAX_RETRIES = MaxRetries
    /\ pc = "crashed"
    /\ create_calls = MaxRetries
    /\ NoSuccessYet
    /\ \A k \in 1..Len(attempt_errors) : Retryable(attempt_errors[k])
    /\ \E k \in 1..Len(attempt_errors) : RetryClass(attempt_errors[k]) = "quota"
    /\ \E k \in 1..Len(attempt_errors) : RetryClass(attempt_errors[k]) = "timeout"

\* C2: if attempt k raises an error that is neither quota nor timeout, the loop
\* fails at once with that error: k create calls in total, no sleep after
\* attempt k and no further attempt, whatever budget remains.
C2_NonRetryableFailsAtOnce ==
    \A k \in 1..Len(attempt_errors) :
        RetryClass(attempt_errors[k]) = "other"
        => /\ pc = "crashed"
           /\ raised = Raised(attempt_errors[k], k)
           /\ create_calls = k
           /\ Len(attempt_errors) = k
           /\ \A i \in 1..Len(sleeps) : sleeps[i].after # k

C2_Witness ==
    /\ MAX_RETRIES = MaxRetries
    /\ RETRY_DELAY > 0
    /\ Len(attempt_errors) = 2
    /\ RetryClass(attempt_errors[1]) = "quota"
    /\ RetryClass(attempt_errors[2]) = "other"
    /\ pc = "crashed"
    /\ create_calls = 2

\* the claim's own reading of the classification: substring at some position
Occurs(sub, s) == \E i \in 1..(Len(s) - Len(sub) + 1) : SubSeq(s, i, i + Len(sub) - 1) = sub

ClaimedQuotaKeywords == {
    <<"e","x","c","e","e","d","e","d"," ","y","o","u","r"," ","c","u","r","r","e","n","t"," ","q","u","o","t","a">>,
    <<"q","u","o","t","a"," ","e","x","c","e","e","d","e","d">>,
    <<"b","i","l","l","i","n","g"," ","d","e","t","a","i","l","s">>,
    <<"p","l","a","n"," ","a","n","d"," ","b","i","l","l","i","n","g">> }

ClaimedQuota(m) == \E kw \in ClaimedQuotaKeywords : Occurs(kw, lower(m))
ClaimedTimeout(m) ==
    \/ Occurs(<<"t","i","m","e","o","u","t">>, lower(m))
    \/ Occurs(<<"t","i","m","e","d"," ","o","u","t">>, lower(m))

\* C3: the class of an error message depends on its text alone: quota iff the
\* lower-cased text contains one of the four quota keywords, else timeout iff it
\* contains "timeout" or "timed out", else non-retryable; a text with both kinds
\* of keyword is quota, so the configured delay applies.
C3_ClassificationByText ==
    cls # Unclassified
    => /\ cls.class = (IF ClaimedQuota(msg) THEN "quota"
                       ELSE IF ClaimedTimeout(msg) THEN "timeout"
                       ELSE "other")
       /\ (ClaimedQuota(msg) /\ ClaimedTimeout(msg) /\ MAX_RETRIES >= 2)
          => (cls.next = "continue" /\ cls.slept = (RETRY_DELAY > 0))

C3_Witness ==
    /\ cls.class = "quota"
    /\ ClaimedQuota(msg)
    /\ ClaimedTimeout(msg)
    /\ ~is_quota_exceeded_error_nolower(msg)
    /\ cls.slept

FallbackStarted == pc = "fallback" \/ create_calls > 0 \/ raised # NoError

\* every way the raw call can fail
PrimaryFailure(ev) ==
    \/ ev.kind \in {"conn_error", "status_error"}
    \/ ev.tail # "ok"
    \/ \E i \in 1..Len(ev.lines) : ev.lines[i].t = "nullcontent"

BeforeNetwork == pc \in {"prepare", "mkdir", "exit1", "primary"}

\* C4: a run that reaches the network phase calls the raw transport exactly once
\* and before any fallback call; the retry loop is entered iff the raw call
\* raised, whatever the failure; when the raw call returns, no fallback call is
\* made.
C4_PrimaryFirstFallbackIffRaised ==
    /\ primary_calls \in {0, 1}
    /\ primary_calls = 0 => (BeforeNetwork /\ ~FallbackStarted /\ use_raw_response = "unset")
    /\ primary_calls = 1
       => /\ ~BeforeNetwork
          /\ FallbackStarted <=> PrimaryFailure(primary_event)
          /\ ~PrimaryFailure(primary_event) => (use_raw_response = "raw" /\ create_calls = 0)

C4_Witness ==
    /\ primary_calls = 1
    /\ primary_event.kind = "status_error"
    /\ create_calls = 2
    /\ use_raw_response = "client"

\* C5: a sleep of retry_delay follows failed attempt k iff the failure was
\* classified quota, attempts remain and retry_delay > 0; never after a timeout
\* and never after the last permitted attempt.
C5_WaitIffQuotaAndDelay ==
    /\ \A k \in 1..Len(attempt_errors) :
          (\E i \in 1..Len(sleeps) : sleeps[i].after = k)
          <=> (RetryClass(attempt_errors[k]) = "quota" /\ k < MAX_RETRIES /\ RETRY_DELAY > 0)
    /\ \A i \in 1..Len(sleeps) :
          /\ sleeps[i].delay = RETRY_DELAY
          /\ sleeps[i].after \in 1..Len(attempt_errors)
          /\ \A j \in 1..Len(sleeps) : i < j => sleeps[i].after < sleeps[j].after

C5_Witness ==
    /\ RETRY_DELAY > 0
    /\ MAX_RETRIES = 3
    /\ Len(attempt_errors) = 3
    /\ RetryClass(attempt_errors[1]) = "quota"
    /\ RetryClass(attempt_errors[2]) = "timeout"
    /\ RetryClass(attempt_errors[3]) = "quota"
    /\ sleeps = <<[after |-> 1, delay |-> RETRY_DELAY]>>

HasBadJson(ev) == \E i \in 1..Len(ev.lines) : ev.lines[i].t = "badjson"

\* the fragments of the lines that carry delta.content, in arrival order
ContentOfLines(lines) ==
    Flatten([i \in 1..Len(lines) |-> IF lines[i].t = "content" THEN lines[i].frag ELSE <<>>])

\* C6 as claimed: a status error, a connection failure or a 'data: ' line with
\* malformed JSON makes the raw streaming call raise, so that it never returns a
\* response built from a stream that held a malformed data line.
C6_MalformedJsonPropagates ==
    (primary_calls = 1
     /\ (primary_event.kind \in {"conn_error", "status_error"} \/ HasBadJson(primary_event)))
    => (pc = "fallback" /\ use_raw_response = "unset")

\* C6 as amended: a status error or a connection failure makes the raw streaming
\* call raise and the fallback start; a 'data: ' line with malformed JSON is
\* skipped, and the call returns the content of the other lines.
C6_MalformedJsonSkipped ==
    primary_calls = 1
    => /\ (primary_event.kind \in {"conn_error", "status_error"} \/ primary_event.tail = "broken")
          => (pc = "fallback" /\ use_raw_response = "unset" /\ completion = NoResponse)
       /\ (primary_event.kind = "stream" /\ ~PrimaryFailure(primary_event))
          => /\ pc = "fields"
             /\ use_raw_response = "raw"
             /\ completion.message.content = ContentOfLines(primary_event.lines)

C6_Witness ==
    /\ use_raw_response = "raw"
    /\ Len(primary_event.lines) = 3
    /\ primary_event.lines[1].t = "content"
    /\ primary_event.lines[2].t = "badjson"
    /\ primary_event.lines[3].t = "content"
    /\ completion.message.content = primary_event.lines[1].frag \o primary_event.lines[3].frag

\* C7 as claimed: after an error while writing content.txt or
\* original_content.txt the run ends as a failure and never reports success.
C7_WriteFailureEndsRun == save_error => (~reported /\ pc # "done")


\* the words of the entries of field value v whose shape is in kinds
EntryWords(v, kinds) ==
    IF v.t = "str" THEN (IF v.items[1].e \in kinds THEN <<v.items[1].w>> ELSE <<>>)
    ELSE IF v.t = "list"
    THEN LET sel == SelectSeq(v.items, LAMBDA en : en.e \in kinds)
         IN  [i \in 1..Len(sel) |-> sel[i].w]
    ELSE <<>>

RECURSIVE FieldWords(_, _, _)
\* the same over the fields names[1], names[2], ... of a message
FieldWords(fields, names, kinds) ==
    IF names = <<>> THEN <<>>
    ELSE EntryWords(fields[Head(names)], kinds) \o FieldWords(fields, Tail(names), kinds)

ImageEntryShapes == {"str", "str_data", "dict_data", "dict_url", "dict_base64", "obj_data"}

MessageText == IF completion.message.has = "str" THEN completion.message.content ELSE <<>>

\* C8 as claimed: whichever transport produced the response, the content handed
\* to save_mixed_content is the message content followed by the image entries of
\* every one of the six vendor fields that is present and non-empty.
C8_SixFieldsOnEitherPath ==
    pc = "save"
    => response_content =
           MessageText \o FieldWords(completion.message.fields,
                                     <<"images", "image", "attachments", "media", "files", "data">>,
                                     ImageEntryShapes)

\* C8 as amended: after the raw transport the six vendor fields are inspected in
\* the listed order and the string and dict (data, url, base64) entries of every
\* present, non-empty one are appended; after the fallback only images is
\* inspected, and only its string entries and the entries with a data attribute
\* are appended.  save_mixed_content receives exactly that string.
C8_SixFieldsOnRawPathOnly ==
    /\ pc = "save"
       => response_content =
              MessageText \o
              (IF use_raw_response = "raw"
               THEN FieldWords(completion.message.fields,
                               <<"images", "image", "attachments", "media", "files", "data">>,
                               {"str", "str_data", "dict_data", "dict_url", "dict_base64"})
               ELSE FieldWords(completion.message.fields, <<"images">>, {"str", "obj_data"}))
    /\ phase # "idle" => content = response_content

C8_Witness ==
    /\ phase = "loop"
    /\ use_raw_response = "raw"
    /\ completion.message.fields["media"].t = "list"
    /\ Len(completion.message.fields["media"].items) = 2
    /\ completion.message.fields["data"].t = "str"
    /\ content = completion.message.content \o <<B64("B", 0), Url("U", 0), B64("B", 0)>>

PositionsOf(k) == {i \in 1..Len(content) : content[i].k = k}
\* the i-th smallest element of the set P of positions
Nth(P, i) == CHOOSE p \in P : Cardinality({q \in P : q <= p}) = i

LoopsDone == phase \in {"loop", "returned"} /\ b_iter = <<>> /\ u_iter = <<>>

\* C9: when every save and download succeeds, the b base64 matches and u URL
\* matches give exactly b + u image files: the i-th base64 match in textual
\* order is image_<i>.png and the j-th URL match in textual order is
\* image_url_<b+j>.<ext>, wherever the URLs lie relative to the base64 spans.
C9_NumberingBase64ThenUrl ==
    (LoopsDone /\ \A r \in 1..Len(results) : results[r].out = "ok")
    => LET b == Cardinality(PositionsOf("b64"))
           u == Cardinality(PositionsOf("url"))
       IN  /\ Len(files) = b + u
           /\ Cardinality({files[i] : i \in 1..Len(files)}) = b + u
           /\ Len(results) = b + u
           /\ \A i \in 1..b :
                 /\ results[i].pos = Nth(PositionsOf("b64"), i)
                 /\ results[i].file = File("image_", i, "png")
                 /\ files[i] = results[i].file
           /\ \A j \in 1..u :
                 /\ results[b + j].pos = Nth(PositionsOf("url"), j)
                 /\ results[b + j].file.stem = "image_url_"
                 /\ results[b + j].file.n = b + j
                 /\ results[b + j].file.ext \in {"png", "jpg", "gif"}
                 /\ files[b + j] = results[b + j].file

C9_Witness ==
    /\ LoopsDone
    /\ content = <<Url("U", 0), B64("B", 0), B64("B", 0)>>
    /\ \A r \in 1..Len(results) : results[r].out = "ok"
    /\ Len(files) = 3
    /\ files[3] = File("image_url_", 3, "jpg")

\* C10 as claimed: the span of every match whose save or download failed is
\* still at its position in content.txt, also when the same span occurs again
\* and that occurrence is saved.
C10_FailedMatchKeptVerbatim ==
    content_txt # NotWritten
    => \A r \in 1..Len(results) :
           results[r].out # "ok" => content_txt[results[r].pos] = content[results[r].pos]


AllSaved == \A r \in 1..Len(results) : results[r].out = "ok"

\* the placeholder that names file f
PlaceholderOf(k, f) == Word(IF k = "b64" THEN "saved" ELSE "downloaded", f.stem, 0, f.n, f.ext)

\* C11 as claimed: when every save and download succeeds, content.txt is the
\* original content with the span of each match replaced, in place, by the
\* placeholder naming the file saved for that very match, and every word that
\* is no match unchanged; also when two matches have the same text.
C11_EachMatchNamesItsOwnFile ==
    (content_txt # NotWritten /\ AllSaved)
    => /\ Len(content_txt) = Len(content)
       /\ \A r \in 1..Len(results) :
             content_txt[results[r].pos] = PlaceholderOf(results[r].k, results[r].file)
       /\ \A i \in 1..Len(content) :
             content[i].k = "text" => content_txt[i] = content[i]

\* C12 as claimed: within one run no image file is opened for writing twice,
\* files left behind by a failed save or download included.
C12_NoFileOpenedTwice ==
    \A i, j \in 1..Len(files) : i < j => files[i] # files[j]


\* C12 as amended: no file that a save or download reported as saved is opened
\* for writing again, the counter being strictly increasing across the
\* successful saves; only a file left behind by a save or download that failed
\* after open() can be opened again, by a later match that reuses its index.
C12_SavedFileNeverReopened ==
    /\ \A r, q \in 1..Len(results) :
          (r < q /\ results[r].out = "ok")
          => (results[q].file # results[r].file /\ results[r].n < results[q].n)
    /\ \A i, j \in 1..Len(files) :
          (i < j /\ files[i] = files[j])
          => \E r \in 1..Len(results) :
                /\ results[r].out = "fail_opened"
                /\ results[r].file = files[i]
                /\ Cardinality({q \in 1..r : results[q].out # "fail"}) = i

C12_Witness ==
    /\ Len(results) = 3
    /\ results[1].out = "fail_opened"
    /\ results[2].out = "ok"
    /\ results[2].file = results[1].file
    /\ results[3].out = "ok"
    /\ files = <<results[1].file, results[1].file, results[3].file>>

MatchCount == Cardinality(PositionsOf("b64")) + Cardinality(PositionsOf("url"))

\* C13: every match is processed whatever the outcomes of the matches before
\* it, and once save_mixed_content has returned without an error in the two
\* text-file writes, content.txt and original_content.txt are both written, for
\* zero matches, all saves succeeding or any subset failing.
C13_TextFilesAlwaysWritten ==
    phase \in {"loop", "returned"}
    => /\ Len(results) + Len(b_iter) + Len(u_iter) = MatchCount
       /\ phase = "returned"
          => /\ Len(results) = MatchCount
             /\ {results[r].pos : r \in 1..Len(results)} = PositionsOf("b64") \cup PositionsOf("url")
             /\ ~save_error => (content_txt = text_content /\ original_txt = content)

C13_Witness ==
    /\ phase = "returned"
    /\ ~save_error
    /\ Len(results) = 3
    /\ results[1].out = "fail"
    /\ results[2].out = "fail_opened"
    /\ results[3].out = "ok"
    /\ results[1].k = "b64"
    /\ results[3].k = "url"
    /\ original_txt = content
    /\ content_txt # NotWritten

\* C14: for a content without base64 or URL match, save_mixed_content creates no
\* image file, leaves the counter at its initial value 1 and writes to
\* content.txt and to original_content.txt the input verbatim.
C14_NoMatchNoChange ==
    (phase \in {"loop", "returned"} /\ \A i \in 1..Len(content) : content[i].k = "text")
    => /\ files = <<>>
       /\ results = <<>>
       /\ image_index = 1
       /\ text_content = content
       /\ content_txt \in {NotWritten, content}
       /\ original_txt \in {NotWritten, content}
       /\ (phase = "returned" /\ ~save_error) => (content_txt = content /\ original_txt = content_txt)

C14_Witness ==
    /\ phase = "returned"
    /\ ~save_error
    /\ Len(content) = 2
    /\ \A i \in 1..Len(content) : content[i].k = "text"
    /\ content_txt = content
    /\ original_txt = content
    /\ files = <<>>
    /\ image_index = 1

SavedSoFar == {r \in 1..Len(results) : results[r].out = "ok"}

\* C19: throughout save_mixed_content the counter is 1 plus the number of
\* matches saved so far; a failed save or download consumes no number, so the
\* indices of the files reported saved are exactly 1..k, without gap or repeat.
C19_CounterCountsSuccesses ==
    phase \in {"loop", "returned"}
    => /\ image_index = 1 + Cardinality(SavedSoFar)
       /\ {results[r].n : r \in SavedSoFar} = 1..Cardinality(SavedSoFar)
       /\ \A r, q \in SavedSoFar : results[r].n = results[q].n => r = q
       /\ \A r \in 1..Len(results) : results[r].n = 1 + Cardinality({q \in SavedSoFar : q < r})

C19_Witness ==
    /\ phase = "returned"
    /\ Len(results) = 3
    /\ results[1].out = "ok"
    /\ results[2].out = "fail"
    /\ results[3].out = "ok"
    /\ results[3].n = 2
    /\ image_index = 3


\* C15: the images of the request are exactly the inputs whose encoding did not
\* raise, in input order, a failing image not stopping the ones after it; when
\* none is encoded the run exits before the output directory is created and
\* before any primary or fallback call.
C15_EncodeFailurePerImage ==
    /\ pc # "prepare"
       => /\ \A i \in 1..MaxImages :
                readable[i] <=> \E j \in 1..Len(image_contents) : image_contents[j] = i
          /\ \A j, k \in 1..Len(image_contents) :
                j < k => image_contents[j] < image_contents[k]
    /\ pc = "exit1" <=> (pc # "prepare" /\ \A i \in 1..MaxImages : ~readable[i])
    /\ pc = "exit1"
       => /\ ~output_directory
          /\ primary_calls = 0
          /\ create_calls = 0
          /\ save_calls = 0
          /\ ~reported
    /\ (output_directory \/ primary_calls > 0 \/ create_calls > 0) => image_contents # <<>>

C15_Witness ==
    /\ ~readable[1]
    /\ readable[2]
    /\ image_contents = <<2>>
    /\ output_directory
    /\ primary_calls = 1
    /\ create_calls = 1


\* C16: when the streaming raw call returns, its single choice holds the
\* concatenation, in arrival order, of the delta.content of the data lines that
\* parse; blank lines, lines without the prefix, chunks without choices or
\* without content add nothing, and lines after [DONE] are still accumulated.
C16_StreamContentIsConcatenation ==
    (use_raw_response = "raw" /\ primary_event.kind = "stream")
    => /\ completion.choices
       /\ completion.message.has = "str"
       /\ completion.message.fields = NoFields
       /\ completion.message.content =
             Flatten([i \in 1..Len(primary_event.lines) |->
                         IF primary_event.lines[i].t = "content"
                         THEN primary_event.lines[i].frag ELSE <<>>])
       /\ \A i \in 1..Len(primary_event.lines) : primary_event.lines[i].t # "nullcontent"

C16_Witness ==
    /\ use_raw_response = "raw"
    /\ Len(primary_event.lines) = 3
    /\ primary_event.lines[1].t = "content"
    /\ primary_event.lines[2].t = "done"
    /\ primary_event.lines[3].t = "content"
    /\ primary_event.lines[1].frag # primary_event.lines[3].frag
    /\ completion.message.content = primary_event.lines[1].frag \o primary_event.lines[3].frag

Terminated == pc \in {"exit1", "crashed", "done"}

FallbackReturned ==
    use_raw_response = "client"
    => /\ create_calls = Len(attempt_errors) + 1
       /\ create_calls = attempt + 1
       /\ create_calls <= MAX_RETRIES
       /\ \A i \in 1..Len(attempt_errors) : Retryable(attempt_errors[i])
       /\ completion \in DriverCompletions
       /\ raised = NoError
       /\ pc # "fallback"

\* C17: when attempts 1..k-1 of the retry loop fail with retryable errors and
\* attempt k succeeds, the loop returns after exactly k calls; no completion
\* request follows a success, a run makes at most 1 + max_retries of them, and
\* every run ends.
C17_ReturnsAtFirstSuccessAndEnds ==
    /\ [](FallbackReturned /\ primary_calls + create_calls <= 1 + MAX_RETRIES)
    /\ [][use_raw_response # "unset"
          => (create_calls' = create_calls /\ primary_calls' = primary_calls)]_vars
    /\ <>Terminated

C17_Witness ==
    /\ use_raw_response = "client"
    /\ create_calls = 2
    /\ Len(attempt_errors) = 1
    /\ primary_calls = 1
    /\ pc = "done"

\* C18: the generic exhaustion error of line 322 is raised only when
\* max_retries <= 0, after zero create calls; for max_retries >= 1 every failing
\* exit of the loop re-raises the error of the attempt that just failed.
C18_GenericExhaustionOnlyWithoutAttempts ==
    /\ raised = GenericExhaustion => (MAX_RETRIES <= 0 /\ create_calls = 0 /\ attempt_errors = <<>>)
    /\ (MAX_RETRIES >= 1 /\ pc = "crashed")
       => /\ create_calls >= 1
          /\ Len(attempt_errors) = create_calls
          /\ raised = Raised(attempt_errors[create_calls], create_calls)

C18_Witness ==
    /\ raised = GenericExhaustion
    /\ MAX_RETRIES <= 0
    /\ create_calls = 0
    /\ pc = "crashed"

CompletionWords ==
    {MessageText[i] : i \in 1..Len(MessageText)}
    \cup UNION {{completion.message.fields[f].items[i].w :
                    i \in 1..Len(completion.message.fields[f].items)} : f \in FieldNames}

\* C20: save_mixed_content is called at most once, after one transport has
\* returned, on content made of that transport's response alone (nothing a
\* failed raw call had accumulated); when raw call and fallback both fail it is
\* never called and no text file is written, the output directory existing.
C20_ExtractorOnceOnOneResponse ==
    /\ save_calls \in {0, 1}
    /\ use_raw_response = "raw"
       => (create_calls = 0 /\ ~PrimaryFailure(primary_event) /\ pc # "fallback")
    /\ use_raw_response = "client"
       => (primary_calls = 1 /\ PrimaryFailure(primary_event) /\ raised = NoError)
    /\ save_calls = 1
       => /\ use_raw_response \in {"raw", "client"}
          /\ completion.choices
          /\ completion.message.has # "none"
          /\ Len(content) >= Len(MessageText)
          /\ SubSeq(content, 1, Len(MessageText)) = MessageText
          /\ \A i \in 1..Len(content) : content[i] \in CompletionWords
    /\ (use_raw_response = "unset" \/ pc = "crashed")
       => /\ save_calls = 0
          /\ content_txt = NotWritten
          /\ original_txt = NotWritten
          /\ files = <<>>
    /\ raised # NoError => (pc = "crashed" /\ use_raw_response = "unset" /\ output_directory)

C20_Witness ==
    /\ primary_event.kind = "stream"
    /\ primary_event.tail = "broken"
    /\ Len(primary_event.lines) = 1
    /\ primary_event.lines[1].t = "content"
    /\ use_raw_response = "client"
    /\ save_calls = 1
    /\ phase = "returned"
    /\ \A i \in 1..Len(content) : content[i] \notin
          {primary_event.lines[1].frag[j] : j \in 1..Len(primary_event.lines[1].frag)}

\* The sequential script with every step eventually taken.
FairSpec == Spec /\ WF_vars(Next)

====
